---------------------------- MODULE Spec2Model ----------------------------
(***************************************************************************)
(* Model of Scheduling_Assistant_Project.py: the TaskManager object (its   *)
(* heap-backed task list, current schedule and archive of completed tasks) *)
(* driven by the menu loop of display_menu.                                *)
(*                                                                         *)
(* Time is counted in minutes.  A Task is the record of the fields the     *)
(* manager reads (name, deadline, priority, duration) plus id, the         *)
(* identity of the Python object; task_type is read only by __repr__ and   *)
(* plot_gantt_chart and is left out.  A store entry is the tuple           *)
(* <<priority, deadline, task>> the code pushes.                           *)
(*                                                                         *)
(* An uncaught exception leaves main(): once last.err is set no operation  *)
(* is enabled any more.                                                    *)
(***************************************************************************)
EXTENDS Integers, Sequences, FiniteSets, TLC

\* ------------------------------------------------------------------ bounds
\* number of Task objects created in one run
MaxTasks == 3

\* the tasks the shell may construct: <<name, deadline, priority, duration>>.
\* Among them are equal (priority, deadline) keys under one name and under
\* two, equal deadlines with different priorities, tasks that fit their
\* deadline exactly, and a negative duration, which int(input()) lets in.
TaskInputs ==
    { <<"a",  60, 1, 30>>, <<"b",  45, 2, 30>>,
      <<"b",  60, 1, 60>>, <<"a",  45, 1, -30>>,
      <<"a",  45, 1, 30>>, <<"b", 120, 2, 60>> }

\* the names the shell may ask to complete
Names == {"a", "b"}

\* instants datetime.now() may return
NowValues == {0, 60}

\* minutes in timedelta(hours=1)
Hour == 60

VARIABLES
    tasks,            \* self.tasks: list of <<priority, deadline, task>>
    schedule,         \* self.schedule: list of tasks
    completed_tasks,  \* self.completed_tasks: list of tasks
    created,          \* number of Task objects constructed so far
    last              \* the last call: operation, inputs, outcome

vars == <<tasks, schedule, completed_tasks, created, last>>

\* ------------------------------------------------------------------- Task
Task(id, name, deadline, priority, duration) ==
    [id |-> id, name |-> name, deadline |-> deadline,
     priority |-> priority, duration |-> duration]

NoTask == Task(0, "", 0, 0, 0)

\* the record of a call; the fields an operation does not use keep these
NoCall ==
    [op |-> "init", task |-> NoTask, name |-> "", now |-> 0,
     ret |-> <<>>, ret2 |-> <<>>, values |-> <<>>, out |-> "",
     err |-> "none"]

\* --------------------------------------------------- tuple comparison (<)
\* x < y on two store entries, as Python compares tuples: the first
\* position where the items are not == decides; two different Task objects
\* are never == and do not support <.
TupleLt(x, y) ==
    IF x[1] # y[1] THEN (IF x[1] < y[1] THEN "true" ELSE "false")
    ELSE IF x[2] # y[2] THEN (IF x[2] < y[2] THEN "true" ELSE "false")
    ELSE IF x[3].id = y[3].id THEN "false"
    ELSE "TypeError"

\* ---------------------------------------------------------------- heappush
\* _siftdown(heap, 0, pos) of the C accelerator: the new item is swapped
\* with its parent while it is smaller; a failing comparison leaves the
\* list as it is at that moment.  Positions are 1-based here.
RECURSIVE siftdown(_, _)
siftdown(heap, pos) ==
    IF pos <= 1 THEN [heap |-> heap, err |-> "none"]
    ELSE LET parentpos == pos \div 2
             cmp == TupleLt(heap[pos], heap[parentpos])
         IN  IF cmp = "TypeError" THEN [heap |-> heap, err |-> "TypeError"]
             ELSE IF cmp = "false" THEN [heap |-> heap, err |-> "none"]
             ELSE siftdown([heap EXCEPT ![parentpos] = heap[pos],
                                        ![pos] = heap[parentpos]],
                           parentpos)

\* heappush writing the item over the last entry instead of appending it
heappush_over_last(heap, item) ==
    IF heap = <<>> THEN siftdown(<<item>>, 1)
    ELSE siftdown([heap EXCEPT ![Len(heap)] = item], Len(heap))

heappush(heap, item) == siftdown(Append(heap, item), Len(heap) + 1)

\* ----------------------------------------------------------------- add_task
add_task(task) ==
    LET r == heappush(tasks, <<task.priority, task.deadline, task>>)
    IN  /\ tasks' = r.heap
        /\ last' = [NoCall EXCEPT !.op = "add_task", !.task = task,
                                  !.err = r.err]
        /\ UNCHANGED <<schedule, completed_tasks>>

Running == last.err = "none"

\* get_user_input / display_menu: construct a Task and add it
AddTask ==
    /\ Running
    /\ created < MaxTasks
    /\ \E t \in TaskInputs :
          add_task(Task(created + 1, t[1], t[2], t[3], t[4]))
    /\ created' = created + 1

\* -------------------------------------------------------------- merge sort
\* merge taking the right element on equal keys (< instead of <=)
RECURSIVE merge_right_on_tie(_, _, _)
merge_right_on_tie(left, right, key) ==
    IF left = <<>> THEN right
    ELSE IF right = <<>> THEN left
    ELSE IF Head(left)[key] < Head(right)[key]
         THEN <<Head(left)>> \o merge_right_on_tie(Tail(left), right, key)
         ELSE <<Head(right)>> \o merge_right_on_tie(left, Tail(right), key)

\* key is the position the key function reads: lambda x: x[1] is position 2
RECURSIVE merge(_, _, _)
merge(left, right, key) ==
    IF left = <<>> THEN right
    ELSE IF right = <<>> THEN left
    ELSE IF Head(left)[key] <= Head(right)[key]
         THEN <<Head(left)>> \o merge(Tail(left), right, key)
         ELSE <<Head(right)>> \o merge(left, Tail(right), key)

RECURSIVE merge_sort(_, _)
merge_sort(ts, key) ==
    IF Len(ts) <= 1 THEN ts
    ELSE LET mid == Len(ts) \div 2
             left == merge_sort(SubSeq(ts, 1, mid), key)
             right == merge_sort(SubSeq(ts, mid + 1, Len(ts)), key)
         IN  merge(left, right, key)

\* [task for _, _, task in entries]
TasksOf(entries) == [i \in 1..Len(entries) |-> entries[i][3]]

get_upcoming_tasks == TasksOf(merge_sort(tasks, 2))

GetUpcomingTasks ==
    /\ Running
    /\ last' = [NoCall EXCEPT !.op = "get_upcoming_tasks",
                              !.ret = get_upcoming_tasks]
    /\ UNCHANGED <<tasks, schedule, completed_tasks, created>>

\* ------------------------------------------------------------------ sorted
\* sorted(list) on store entries: an insertion sort by <, which raises as
\* soon as a comparison does.  sort_insert puts x into the sorted list s.
RECURSIVE sort_insert(_, _)
sort_insert(s, x) ==
    IF s = <<>> THEN [list |-> <<x>>, err |-> "none"]
    ELSE LET y == s[Len(s)]
             cmp == TupleLt(x, y)
         IN  IF cmp = "TypeError" THEN [list |-> <<>>, err |-> "TypeError"]
             ELSE IF cmp = "false" THEN [list |-> Append(s, x), err |-> "none"]
             ELSE LET r == sort_insert(SubSeq(s, 1, Len(s) - 1), x)
                  IN  IF r.err # "none" THEN r
                      ELSE [list |-> Append(r.list, y), err |-> "none"]

RECURSIVE sorted(_)
sorted(seq) ==
    IF seq = <<>> THEN [list |-> <<>>, err |-> "none"]
    ELSE LET r == sorted(SubSeq(seq, 1, Len(seq) - 1))
         IN  IF r.err # "none" THEN r
             ELSE sort_insert(r.list, seq[Len(seq)])

\* ---------------------------------------------------------- schedule_tasks
\* schedule_loop with the clock left where it was after an accepted task
RECURSIVE schedule_loop_clock_kept(_, _)
schedule_loop_clock_kept(entries, current_time) ==
    IF entries = <<>> THEN <<>>
    ELSE LET deadline == Head(entries)[2]
             task == Head(entries)[3]
         IN  IF current_time + task.duration <= deadline
             THEN <<task>> \o schedule_loop_clock_kept(Tail(entries),
                                                       current_time)
             ELSE schedule_loop_clock_kept(Tail(entries), current_time)

\* schedule_loop accepting on < instead of <=
RECURSIVE schedule_loop_strict(_, _)
schedule_loop_strict(entries, current_time) ==
    IF entries = <<>> THEN <<>>
    ELSE LET deadline == Head(entries)[2]
             task == Head(entries)[3]
         IN  IF current_time + task.duration < deadline
             THEN <<task>> \o schedule_loop_strict(Tail(entries),
                                            current_time + task.duration)
             ELSE schedule_loop_strict(Tail(entries), current_time)

\* schedule_loop comparing the duration alone with the deadline
RECURSIVE schedule_loop_no_clock(_, _)
schedule_loop_no_clock(entries, current_time) ==
    IF entries = <<>> THEN <<>>
    ELSE LET deadline == Head(entries)[2]
             task == Head(entries)[3]
         IN  IF task.duration <= deadline
             THEN <<task>> \o schedule_loop_no_clock(Tail(entries),
                                            current_time + task.duration)
             ELSE schedule_loop_no_clock(Tail(entries), current_time)

\* schedule_loop testing current_time - duration instead of + duration
RECURSIVE schedule_loop_minus(_, _)
schedule_loop_minus(entries, current_time) ==
    IF entries = <<>> THEN <<>>
    ELSE LET deadline == Head(entries)[2]
             task == Head(entries)[3]
         IN  IF current_time - task.duration <= deadline
             THEN <<task>> \o schedule_loop_minus(Tail(entries),
                                            current_time + task.duration)
             ELSE schedule_loop_minus(Tail(entries), current_time)

\* the loop of schedule_tasks over the sorted entries; the result is the
\* list scheduled_tasks
RECURSIVE schedule_loop(_, _)
schedule_loop(entries, current_time) ==
    IF entries = <<>> THEN <<>>
    ELSE LET deadline == Head(entries)[2]
             task == Head(entries)[3]
         IN  IF current_time + task.duration <= deadline
             THEN <<task>> \o schedule_loop(Tail(entries),
                                            current_time + task.duration)
             ELSE schedule_loop(Tail(entries), current_time)

\* schedule_tasks taking the scheduled entries out of the store, as a loop
\* of heappop would
schedule_tasks_popping(now) ==
    LET s == sorted(tasks)
    IN  IF s.err # "none"
        THEN /\ last' = [NoCall EXCEPT !.op = "schedule_tasks", !.now = now,
                                       !.err = s.err]
             /\ UNCHANGED <<tasks, schedule, completed_tasks>>
        ELSE LET scheduled_tasks == schedule_loop(s.list, now)
             IN  /\ schedule' = scheduled_tasks
                 /\ tasks' = SelectSeq(tasks, LAMBDA e :
                        \A k \in 1..Len(scheduled_tasks) :
                            scheduled_tasks[k].id # e[3].id)
                 /\ last' = [NoCall EXCEPT !.op = "schedule_tasks",
                                           !.now = now,
                                           !.ret = scheduled_tasks]
                 /\ UNCHANGED completed_tasks

\* schedule_tasks extending the stored schedule instead of replacing it
schedule_tasks_merging(now) ==
    LET s == sorted(tasks)
    IN  IF s.err # "none"
        THEN /\ last' = [NoCall EXCEPT !.op = "schedule_tasks", !.now = now,
                                       !.err = s.err]
             /\ UNCHANGED <<tasks, schedule, completed_tasks>>
        ELSE LET scheduled_tasks == schedule \o schedule_loop(s.list, now)
             IN  /\ schedule' = scheduled_tasks
                 /\ last' = [NoCall EXCEPT !.op = "schedule_tasks",
                                           !.now = now,
                                           !.ret = scheduled_tasks]
                 /\ UNCHANGED <<tasks, completed_tasks>>

schedule_tasks(now) ==
    LET s == sorted(tasks)
    IN  IF s.err # "none"
        THEN /\ last' = [NoCall EXCEPT !.op = "schedule_tasks", !.now = now,
                                       !.err = s.err]
             /\ UNCHANGED <<tasks, schedule, completed_tasks>>
        ELSE LET scheduled_tasks == schedule_loop(s.list, now)
             IN  /\ schedule' = scheduled_tasks
                 /\ last' = [NoCall EXCEPT !.op = "schedule_tasks",
                                           !.now = now,
                                           !.ret = scheduled_tasks]
                 /\ UNCHANGED <<tasks, completed_tasks>>

ScheduleTasks ==
    /\ Running
    /\ \E now \in NowValues : schedule_tasks(now)
    /\ UNCHANGED created

\* ---------------------------------------------------- analyze_task_density
\* deadlines.sort() on integers
RECURSIVE sort_ints(_)
sort_ints(seq) ==
    IF seq = <<>> THEN <<>>
    ELSE LET m == CHOOSE i \in 1..Len(seq) :
                      \A j \in 1..Len(seq) : seq[i] <= seq[j]
         IN  <<seq[m]>> \o sort_ints([k \in 1..(Len(seq) - 1) |->
                                         IF k < m THEN seq[k] ELSE seq[k + 1]])

density_times(deadlines) ==
    [i \in 1..(((deadlines[Len(deadlines)] - deadlines[1]) \div Hour) + 1) |->
        deadlines[1] + Hour * (i - 1)]

\* density_values counting the deadlines before the bucket only (<)
density_values_strict(deadlines, times) ==
    [t \in 1..Len(times) |->
        Cardinality({d \in 1..Len(deadlines) : deadlines[d] < times[t]})]

density_values(deadlines, times) ==
    [t \in 1..Len(times) |->
        Cardinality({d \in 1..Len(deadlines) : deadlines[d] <= times[t]})]

AnalyzeTaskDensity ==
    /\ Running
    /\ LET deadlines == sort_ints([i \in 1..Len(tasks) |-> tasks[i][3].deadline])
       IN  IF deadlines = <<>>
           THEN last' = [NoCall EXCEPT !.op = "analyze_task_density",
                                      !.out = "No tasks to analyze."]
           ELSE LET times == density_times(deadlines)
                IN  last' = [NoCall EXCEPT !.op = "analyze_task_density",
                                          !.ret = times,
                                          !.values = density_values(deadlines, times)]
    /\ UNCHANGED <<tasks, schedule, completed_tasks, created>>

\* ------------------------------------------------------------ remind_tasks
\* the loop of remind_tasks: the store entries with deadline < current_time
\* overdue_of counting a deadline equal to current_time as overdue
overdue_of_inclusive(entries, current_time) ==
    TasksOf(SelectSeq(entries, LAMBDA e : e[2] <= current_time))

overdue_of(entries, current_time) ==
    TasksOf(SelectSeq(entries, LAMBDA e : e[2] < current_time))

pending_of(entries, current_time) ==
    TasksOf(SelectSeq(entries, LAMBDA e : ~(e[2] < current_time)))

\* a sort by priority that puts a task before the tasks of its priority
RECURSIVE sort_by_priority_unstable(_)
sort_by_priority_unstable(seq) ==
    IF seq = <<>> THEN <<>>
    ELSE LET x == seq[Len(seq)]
             s == sort_by_priority_unstable(SubSeq(seq, 1, Len(seq) - 1))
         IN  SelectSeq(s, LAMBDA t : t.priority < x.priority)
             \o <<x>> \o SelectSeq(s, LAMBDA t : t.priority >= x.priority)

\* list.sort(key=lambda x: x.priority): stable, compares priorities only
RECURSIVE sort_by_priority(_)
sort_by_priority(seq) ==
    IF seq = <<>> THEN <<>>
    ELSE LET x == seq[Len(seq)]
             s == sort_by_priority(SubSeq(seq, 1, Len(seq) - 1))
         IN  SelectSeq(s, LAMBDA t : t.priority <= x.priority)
             \o <<x>> \o SelectSeq(s, LAMBDA t : t.priority > x.priority)

\* remind_tasks taking the overdue tasks out of the store
RemindTasksDroppingOverdue ==
    /\ Running
    /\ \E now \in NowValues :
          /\ last' = [NoCall EXCEPT !.op = "remind_tasks", !.now = now,
                          !.ret = sort_by_priority(overdue_of(tasks, now)),
                          !.ret2 = sort_by_priority(pending_of(tasks, now))]
          /\ tasks' = SelectSeq(tasks, LAMBDA e : ~(e[2] < now))
    /\ UNCHANGED <<schedule, completed_tasks, created>>

RemindTasks ==
    /\ Running
    /\ \E now \in NowValues :
          last' = [NoCall EXCEPT !.op = "remind_tasks", !.now = now,
                       !.ret = sort_by_priority(overdue_of(tasks, now)),
                       !.ret2 = sort_by_priority(pending_of(tasks, now))]
    /\ UNCHANGED <<tasks, schedule, completed_tasks, created>>

\* -------------------------------------------------- mark_task_as_completed
\* the positions of the store whose task has the given name
Matches(entries, task_name) ==
    {i \in 1..Len(entries) : entries[i][3].name = task_name}

\* the first of them: where the loop returns
FirstMatch(entries, task_name) ==
    CHOOSE i \in Matches(entries, task_name) :
        \A j \in Matches(entries, task_name) : i <= j

\* del list[index]
Del(seq, index) ==
    [k \in 1..(Len(seq) - 1) |-> IF k < index THEN seq[k] ELSE seq[k + 1]]

\* mark_task_as_completed taking the last entry of that name, not the first
mark_task_as_completed_last_match(task_name) ==
    IF Matches(tasks, task_name) # {}
    THEN LET index == CHOOSE i \in Matches(tasks, task_name) :
                          \A j \in Matches(tasks, task_name) : j <= i
         IN  /\ completed_tasks' = Append(completed_tasks, tasks[index][3])
             /\ tasks' = Del(tasks, index)
             /\ last' = [NoCall EXCEPT !.op = "mark_task_as_completed",
                                       !.name = task_name,
                                       !.out = "marked as completed"]
    ELSE /\ last' = [NoCall EXCEPT !.op = "mark_task_as_completed",
                                   !.name = task_name,
                                   !.out = "not found"]
         /\ UNCHANGED <<tasks, completed_tasks>>

\* mark_task_as_completed without the del: the task stays in the store
mark_task_as_completed_kept(task_name) ==
    IF Matches(tasks, task_name) # {}
    THEN LET index == FirstMatch(tasks, task_name)
         IN  /\ completed_tasks' = Append(completed_tasks, tasks[index][3])
             /\ tasks' = tasks
             /\ last' = [NoCall EXCEPT !.op = "mark_task_as_completed",
                                       !.name = task_name,
                                       !.out = "marked as completed"]
    ELSE /\ last' = [NoCall EXCEPT !.op = "mark_task_as_completed",
                                   !.name = task_name,
                                   !.out = "not found"]
         /\ UNCHANGED <<tasks, completed_tasks>>

\* mark_task_as_completed with the del after the loop: an unknown name
\* deletes the entry the loop stopped at, the last one
mark_task_as_completed_del_after_loop(task_name) ==
    IF Matches(tasks, task_name) # {}
    THEN LET index == FirstMatch(tasks, task_name)
         IN  /\ completed_tasks' = Append(completed_tasks, tasks[index][3])
             /\ tasks' = Del(tasks, index)
             /\ last' = [NoCall EXCEPT !.op = "mark_task_as_completed",
                                       !.name = task_name,
                                       !.out = "marked as completed"]
    ELSE /\ last' = [NoCall EXCEPT !.op = "mark_task_as_completed",
                                   !.name = task_name,
                                   !.out = "not found"]
         /\ tasks' = IF tasks = <<>> THEN tasks ELSE Del(tasks, Len(tasks))
         /\ UNCHANGED completed_tasks

\* mark_task_as_completed putting the task at the front of the archive
\* (insert(0, task) instead of append)
mark_task_as_completed_front(task_name) ==
    IF Matches(tasks, task_name) # {}
    THEN LET index == FirstMatch(tasks, task_name)
         IN  /\ completed_tasks' = <<tasks[index][3]>> \o completed_tasks
             /\ tasks' = Del(tasks, index)
             /\ last' = [NoCall EXCEPT !.op = "mark_task_as_completed",
                                       !.name = task_name,
                                       !.out = "marked as completed"]
    ELSE /\ last' = [NoCall EXCEPT !.op = "mark_task_as_completed",
                                   !.name = task_name,
                                   !.out = "not found"]
         /\ UNCHANGED <<tasks, completed_tasks>>

mark_task_as_completed(task_name) ==
    IF Matches(tasks, task_name) # {}
    THEN LET index == FirstMatch(tasks, task_name)
         IN  /\ completed_tasks' = Append(completed_tasks, tasks[index][3])
             /\ tasks' = Del(tasks, index)
             /\ last' = [NoCall EXCEPT !.op = "mark_task_as_completed",
                                       !.name = task_name,
                                       !.out = "marked as completed"]
    ELSE /\ last' = [NoCall EXCEPT !.op = "mark_task_as_completed",
                                   !.name = task_name,
                                   !.out = "not found"]
         /\ UNCHANGED <<tasks, completed_tasks>>

MarkTaskAsCompleted ==
    /\ Running
    /\ \E task_name \in Names : mark_task_as_completed(task_name)
    /\ UNCHANGED <<schedule, created>>

\* ---------------------------------------------------- view_completed_tasks
ViewCompletedTasks ==
    /\ Running
    /\ last' = [NoCall EXCEPT !.op = "view_completed_tasks",
                              !.ret = completed_tasks]
    /\ UNCHANGED <<tasks, schedule, completed_tasks, created>>

\* ------------------------------------------------------------ the program
Init ==
    /\ tasks = <<>>
    /\ schedule = <<>>
    /\ completed_tasks = <<>>
    /\ created = 0
    /\ last = NoCall

\* one menu choice of display_menu
Next ==
    \/ AddTask
    \/ GetUpcomingTasks
    \/ ScheduleTasks
    \/ AnalyzeTaskDensity
    \/ RemindTasks
    \/ MarkTaskAsCompleted
    \/ ViewCompletedTasks

Spec == Init /\ [][Next]_vars

\* ================================================================ claims
\* helpers of the statements below
RECURSIVE SumDurations(_, _)
\* the durations of the first k tasks of seq, added up
SumDurations(seq, k) ==
    IF k = 0 THEN 0 ELSE seq[k].duration + SumDurations(seq, k - 1)

\* the position of the task with this id in a list of tasks (0: absent)
PosOf(seq, id) ==
    IF \E i \in 1..Len(seq) : seq[i].id = id
    THEN CHOOSE i \in 1..Len(seq) : seq[i].id = id
    ELSE 0

\* the ids of a list of tasks
Ids(seq) == {seq[i].id : i \in 1..Len(seq)}

\* no task twice
NoRepeat(seq) == Cardinality(Ids(seq)) = Len(seq)

\* the number of tasks of a list that carry this name
CountName(seq, name) == Cardinality({i \in 1..Len(seq) : seq[i].name = name})

\* the permutations of a sequence
PermsOf(seq) ==
    {[i \in 1..Len(seq) |-> seq[f[i]]] :
        f \in {g \in [1..Len(seq) -> 1..Len(seq)] :
                  \A i, j \in 1..Len(seq) : i # j => g[i] # g[j]}}

\* out holds the tasks of in (none twice), in non-decreasing order of the
\* field Key, tasks of equal key in the order they have in in
IsStableSort(out, in, Key(_)) ==
    /\ Len(out) = Len(in)
    /\ Ids(out) = Ids(in)
    /\ \A i \in 1..Len(out) : out[i] = in[PosOf(in, out[i].id)]
    /\ \A i, j \in 1..Len(out) :
         i < j => \/ Key(out[i]) < Key(out[j])
                  \/ /\ Key(out[i]) = Key(out[j])
                     /\ PosOf(in, out[i].id) < PosOf(in, out[j].id)

DeadlineOf(t) == t.deadline
PriorityOf(t) == t.priority

\* the position of the entry of this task in a list of store entries
EntryPos(entries, id) == CHOOSE i \in 1..Len(entries) : entries[i][3].id = id

\* (priority, deadline) of x before (priority, deadline) of y
KeyLess(x, y) == x[1] < y[1] \/ (x[1] = y[1] /\ x[2] < y[2])

\* the store entries by (priority ascending, deadline ascending), entries of
\* equal key in their store order
StableKeyOrder(entries) ==
    CHOOSE s \in PermsOf(entries) :
        \A i, j \in 1..Len(s) :
            i < j => \/ KeyLess(s[i], s[j])
                     \/ /\ ~KeyLess(s[j], s[i])
                        /\ EntryPos(entries, s[i][3].id)
                             < EntryPos(entries, s[j][3].id)

RECURSIVE AcceptedTime(_, _, _)
\* the durations of the accepted entries among the first k of s, added up
AcceptedTime(s, acc, k) ==
    IF k = 0 THEN 0
    ELSE (IF acc[k] THEN s[k][3].duration ELSE 0) + AcceptedTime(s, acc, k - 1)

\* ret is what the greedy pass over s yields with the clock starting at now:
\* entry i is accepted iff the clock it meets plus its duration is at most
\* its deadline, the clock being now plus the durations accepted before it;
\* ret lists the accepted tasks, each once, in the order of s
IsGreedyResult(ret, s, now) ==
    \E acc \in [1..Len(s) -> BOOLEAN] :
        /\ \A i \in 1..Len(s) :
             acc[i] <=> (now + AcceptedTime(s, acc, i - 1) + s[i][3].duration
                           <= s[i][2])
        /\ NoRepeat(ret)
        /\ Ids(ret) = {s[i][3].id : i \in {k \in 1..Len(s) : acc[k]}}
        /\ \A k \in 1..Len(ret) : ret[k] = s[EntryPos(s, ret[k].id)][3]
        /\ \A k, m \in 1..Len(ret) :
             k < m => EntryPos(s, ret[k].id) < EntryPos(s, ret[m].id)

\* the elements of a sequence
Range(seq) == {seq[i] : i \in 1..Len(seq)}

\* ---------------------------------------------------------------------- C1
\* C1: add_task(task) always succeeds: whatever the store holds, also a task
\* of the same (priority, deadline) or the same name, the call raises no
\* error and the store then holds the entries it held plus the one entry
\* (task.priority, task.deadline, task).
C1_AddTaskAlwaysSucceeds ==
    [][last'.op = "add_task" =>
         /\ last'.err = "none"
         /\ Len(tasks') = Len(tasks) + 1
         /\ Range(tasks') = Range(tasks) \cup
              {<<last'.task.priority, last'.task.deadline, last'.task>>}]_vars

\* ---------------------------------------------------------------------- C2
\* C2: every schedule schedule_tasks() returns is feasible: for every
\* position k, the start time (the now the call read) plus the durations of
\* the tasks at positions 1..k is at most the deadline of the task at k.
C2_ScheduleFeasible ==
    (last.op = "schedule_tasks" /\ last.err = "none") =>
        /\ schedule = last.ret
        /\ \A k \in 1..Len(last.ret) :
             last.now + SumDurations(last.ret, k) <= last.ret[k].deadline

\* a returned schedule of two tasks or more that leaves a task out and whose
\* second task ends exactly at its deadline
C2_Witness ==
    /\ last.op = "schedule_tasks" /\ last.err = "none"
    /\ Len(last.ret) >= 2
    /\ Len(last.ret) < Len(tasks)
    /\ last.now + SumDurations(last.ret, 2) = last.ret[2].deadline

\* ---------------------------------------------------------------------- C3
\* the scenario of the specification: A(priority 1, deadline T+60, duration
\* 30) and B(priority 2, deadline T+45, duration 30) at T = 0
ExampleA(t) == t.priority = 1 /\ t.deadline = 60 /\ t.duration = 30
ExampleB(t) == t.priority = 2 /\ t.deadline = 45 /\ t.duration = 30

ExampleScheduled ==
    /\ last.op = "schedule_tasks" /\ last.now = 0
    /\ Len(tasks) = 2
    /\ \E i, j \in 1..2 : ExampleA(tasks[i][3]) /\ ExampleB(tasks[j][3])

\* C3: a schedule schedule_tasks() returns is the result of the greedy pass
\* over the active tasks in (priority, deadline) order with the clock
\* starting at now: a task is accepted iff clock + duration <= deadline and
\* then advances the clock, else it is skipped.  The result is a
\* subsequence of the ordered store without repeats and becomes the stored
\* schedule, whatever the schedule was.  For A and B of the scenario the
\* schedule is [A].
C3_ScheduleIsGreedyPass ==
    (last.op = "schedule_tasks" /\ last.err = "none") =>
        /\ IsGreedyResult(last.ret, StableKeyOrder(tasks), last.now)
        /\ schedule = last.ret
        /\ ExampleScheduled => Len(last.ret) = 1 /\ ExampleA(last.ret[1])

\* the scenario has been scheduled, and the schedule is one task long
C3_Witness ==
    /\ ExampleScheduled
    /\ last.err = "none"
    /\ Len(last.ret) = 1

\* ---------------------------------------------------------------------- C4
\* C4: schedule_tasks() leaves the store (entries and order) and the archive
\* as they were, so the rejected tasks stay in the store; a second call
\* right after a first, with the same now, returns the same schedule.
C4_ScheduleNonDestructive ==
    [][last'.op = "schedule_tasks" =>
         /\ tasks' = tasks
         /\ completed_tasks' = completed_tasks
         /\ (last.op = "schedule_tasks" /\ last.now = last'.now
               /\ last.err = "none")
              => (last'.err = "none" /\ last'.ret = last.ret
                    /\ schedule' = schedule)]_vars

\* a returned schedule that rejected a task, which is still in the store,
\* with an archive that is not empty
C4_Witness ==
    /\ last.op = "schedule_tasks" /\ last.err = "none"
    /\ last.ret # <<>>
    /\ completed_tasks # <<>>
    /\ \E i \in 1..Len(tasks) : PosOf(last.ret, tasks[i][3].id) = 0

\* ---------------------------------------------------------------------- C5
\* a step of mark_task_as_completed that found the name
CompletedStep ==
    /\ last'.op = "mark_task_as_completed"
    /\ last'.out = "marked as completed"

\* C5 as stated: after mark_task_as_completed(name) succeeds, in any store
\* (equal names allowed), the archive holds exactly one more task named
\* name and the store holds no task named name.
C5_CompletionExclusive ==
    [][CompletedStep =>
         /\ CountName(completed_tasks', last'.name)
              = CountName(completed_tasks, last'.name) + 1
         /\ Matches(tasks', last'.name) = {}]_vars

\* C5 as amended: mark_task_as_completed(name) succeeds iff a store entry
\* has that name; then the archive holds exactly one more task named name,
\* the store holds exactly one entry named name fewer, and the task
\* archived was in the store and is no longer; other tasks of that name
\* stay active.
C5_CompletionMovesOne ==
    [][last'.op = "mark_task_as_completed" =>
         /\ CompletedStep <=> Matches(tasks, last'.name) # {}
         /\ CompletedStep =>
              /\ last'.err = "none"
              /\ CountName(completed_tasks', last'.name)
                   = CountName(completed_tasks, last'.name) + 1
              /\ Cardinality(Matches(tasks', last'.name))
                   = Cardinality(Matches(tasks, last'.name)) - 1
              /\ LET t == completed_tasks'[Len(completed_tasks')]
                 IN  /\ t.name = last'.name
                     /\ PosOf(TasksOf(tasks), t.id) # 0
                     /\ PosOf(TasksOf(tasks'), t.id) = 0]_vars

\* a completion has succeeded and another task of that name is still active
C5_Witness ==
    /\ last.op = "mark_task_as_completed"
    /\ last.out = "marked as completed"
    /\ Matches(tasks, last.name) # {}
    /\ completed_tasks[Len(completed_tasks)].name = last.name

\* ---------------------------------------------------------------------- C6
\* C6: mark_task_as_completed(name) with no store entry of that name raises
\* no error, reports "not found" and leaves the store, the archive and the
\* current schedule as they were.
C6_UnknownNameNoEffect ==
    [][(last'.op = "mark_task_as_completed"
          /\ Matches(tasks, last'.name) = {}) =>
         /\ last'.err = "none"
         /\ last'.out = "not found"
         /\ tasks' = tasks
         /\ completed_tasks' = completed_tasks
         /\ schedule' = schedule]_vars

\* a name was not found while the store, the archive and the schedule all
\* held tasks
C6_Witness ==
    /\ last.op = "mark_task_as_completed"
    /\ last.out = "not found"
    /\ tasks # <<>>
    /\ completed_tasks # <<>>
    /\ schedule # <<>>

\* ---------------------------------------------------------------------- C7
\* C7: get_upcoming_tasks() returns the active tasks, each once, in
\* non-decreasing deadline order, tasks of equal deadline in the order they
\* have in the store; and merge_sort by deadline is that stable sort on
\* every ordering of the store entries, a list of at most one entry coming
\* back as it is.
C7_UpcomingStableByDeadline ==
    last.op = "get_upcoming_tasks" =>
        /\ last.err = "none"
        /\ IsStableSort(last.ret, TasksOf(tasks), DeadlineOf)
        /\ \A p \in PermsOf(tasks) :
             /\ IsStableSort(TasksOf(merge_sort(p, 2)), TasksOf(p), DeadlineOf)
             /\ Len(p) <= 1 => merge_sort(p, 2) = p

\* three tasks or more came back, two of them with one deadline, and the
\* store was not in deadline order
C7_Witness ==
    /\ last.op = "get_upcoming_tasks"
    /\ Len(last.ret) >= 3
    /\ last.ret # TasksOf(tasks)
    /\ \E i, j \in 1..Len(last.ret) :
         i < j /\ last.ret[i].deadline = last.ret[j].deadline

\* ---------------------------------------------------------------------- C8
\* C8: remind_tasks() puts every active task in exactly one group: overdue
\* iff deadline < now, pending otherwise (deadline = now is pending); the
\* groups share no task and together hold the active tasks, each once.
C8_RemindPartition ==
    last.op = "remind_tasks" =>
        /\ last.err = "none"
        /\ NoRepeat(last.ret) /\ NoRepeat(last.ret2)
        /\ Ids(last.ret) \cap Ids(last.ret2) = {}
        /\ Len(last.ret) + Len(last.ret2) = Len(tasks)
        /\ Range(last.ret) \cup Range(last.ret2) = Range(TasksOf(tasks))
        /\ \A t \in Range(TasksOf(tasks)) :
             IF t.deadline < last.now
             THEN PosOf(last.ret, t.id) # 0 /\ PosOf(last.ret2, t.id) = 0
             ELSE PosOf(last.ret, t.id) = 0 /\ PosOf(last.ret2, t.id) # 0

\* both groups hold a task, and a pending task has its deadline at now
C8_Witness ==
    /\ last.op = "remind_tasks"
    /\ last.ret # <<>>
    /\ \E k \in 1..Len(last.ret2) : last.ret2[k].deadline = last.now

\* ---------------------------------------------------------------------- C9
\* C9: schedule_tasks() raises no error in any reachable store, also one
\* with two tasks of identical (priority, deadline), and considers such
\* tasks in their store order.
C9_ScheduleTotalOnTies ==
    last.op = "schedule_tasks" =>
        /\ last.err = "none"
        /\ IsGreedyResult(last.ret, StableKeyOrder(tasks), last.now)

\* --------------------------------------------------------------------- C10
\* C10: the archive is append-only: a successful mark_task_as_completed
\* adds exactly one task at its end, and no other step changes it, so the
\* archive of a state is a prefix of the archive of every later state.
C10_ArchiveAppendOnly ==
    [][IF CompletedStep
       THEN /\ Len(completed_tasks') = Len(completed_tasks) + 1
            /\ SubSeq(completed_tasks', 1, Len(completed_tasks))
                 = completed_tasks
       ELSE completed_tasks' = completed_tasks]_vars

\* a completion has succeeded on an archive that already held a task
C10_Witness ==
    /\ last.op = "mark_task_as_completed"
    /\ last.out = "marked as completed"
    /\ Len(completed_tasks) >= 2

\* --------------------------------------------------------------------- C11
\* the operations that only read
ReadOnlyOps ==
    {"get_upcoming_tasks", "remind_tasks", "analyze_task_density",
     "view_completed_tasks"}

\* C11: get_upcoming_tasks, remind_tasks, analyze_task_density and
\* view_completed_tasks leave the store, the archive and the current
\* schedule as they were; the store gets shorter only in a successful
\* mark_task_as_completed step, and then by exactly one entry.
C11_OnlyCompletionRemoves ==
    [][/\ last'.op \in ReadOnlyOps =>
            /\ tasks' = tasks
            /\ completed_tasks' = completed_tasks
            /\ schedule' = schedule
       /\ Len(tasks') < Len(tasks) => CompletedStep
       /\ CompletedStep => Len(tasks') = Len(tasks) - 1]_vars

\* remind_tasks has reported an overdue task while the store, the archive
\* and the schedule all held tasks
C11_Witness ==
    /\ last.op = "remind_tasks"
    /\ last.ret # <<>>
    /\ tasks # <<>>
    /\ completed_tasks # <<>>
    /\ schedule # <<>>

\* --------------------------------------------------------------------- C12
\* schedule_tasks has returned
ScheduleReturned == last.op = "schedule_tasks" /\ last.err = "none"

\* t cannot fit even when started at now
NeverFits(t, now) == now + t.duration > t.deadline

\* no active task has a negative duration
DurationsNonNegative == \A i \in 1..Len(tasks) : tasks[i][3].duration >= 0

\* C12 as stated: in every store, whatever the durations, a task with
\* now + duration > deadline is in no schedule schedule_tasks() returns.
C12_NeverFittingRejected ==
    ScheduleReturned =>
        \A k \in 1..Len(last.ret) : ~NeverFits(last.ret[k], last.now)

\* C12 as amended: when no active task has a negative duration, a task
\* with now + duration > deadline is in no schedule schedule_tasks()
\* returns.
C12_NeverFittingRejectedNonNegative ==
    (ScheduleReturned /\ DurationsNonNegative) =>
        \A k \in 1..Len(last.ret) : ~NeverFits(last.ret[k], last.now)

\* a schedule was returned for a store of non-negative durations that holds
\* a task which cannot fit from the start, and the schedule is not empty
C12_Witness ==
    /\ ScheduleReturned
    /\ DurationsNonNegative
    /\ last.ret # <<>>
    /\ \E i \in 1..Len(tasks) : NeverFits(tasks[i][3], last.now)

\* --------------------------------------------------------------------- C13
\* the earliest and the latest deadline in the store
EarliestDeadline ==
    CHOOSE d \in {tasks[i][2] : i \in 1..Len(tasks)} :
        \A i \in 1..Len(tasks) : d <= tasks[i][2]
LatestDeadline ==
    CHOOSE d \in {tasks[i][2] : i \in 1..Len(tasks)} :
        \A i \in 1..Len(tasks) : d >= tasks[i][2]

\* the number of active tasks due at time or before
DueBy(time) == Cardinality({i \in 1..Len(tasks) : tasks[i][3].deadline <= time})

\* the points of analyze_task_density: one per hourly bucket from the
\* earliest deadline on, each with the number of tasks due by it; the
\* numbers do not decrease and the first is at least 1
DensityPoints ==
    /\ last.err = "none"
    /\ Len(last.ret) = ((LatestDeadline - EarliestDeadline) \div Hour) + 1
    /\ Len(last.values) = Len(last.ret)
    /\ \A i \in 1..Len(last.ret) :
         /\ last.ret[i] = EarliestDeadline + (i - 1) * Hour
         /\ last.values[i] = DueBy(last.ret[i])
    /\ \A i, j \in 1..Len(last.values) :
         i <= j => last.values[i] <= last.values[j]
    /\ last.values[1] >= 1

\* on an empty store the call reports that and computes nothing
DensityNoOp ==
    /\ last.err = "none"
    /\ last.out = "No tasks to analyze."
    /\ last.ret = <<>> /\ last.values = <<>>

\* C13 as stated: the points are those of DensityPoints, and the buckets
\* reach the latest deadline, so that the last value counts every active
\* task; on an empty store the call is a no-op without error.
C13_DensityCountsAll ==
    last.op = "analyze_task_density" =>
        IF tasks = <<>> THEN DensityNoOp
        ELSE /\ DensityPoints
             /\ last.values[Len(last.values)] = Len(tasks)

\* C13 as amended: the points are those of DensityPoints; the last bucket
\* is at most the latest deadline and less than an hour before it, so the
\* last value counts every active task exactly when the latest deadline is
\* a whole number of hours after the earliest; on an empty store the call
\* is a no-op without error.
C13_DensityPoints ==
    last.op = "analyze_task_density" =>
        IF tasks = <<>> THEN DensityNoOp
        ELSE /\ DensityPoints
             /\ last.ret[Len(last.ret)] <= LatestDeadline
             /\ LatestDeadline < last.ret[Len(last.ret)] + Hour
             /\ last.values[Len(last.values)] = Len(tasks)
                  <=> (LatestDeadline - EarliestDeadline) % Hour = 0

\* two buckets or more, the last of them before the latest deadline
C13_Witness ==
    /\ last.op = "analyze_task_density"
    /\ Len(last.ret) >= 2
    /\ last.values[Len(last.values)] < Len(tasks)

\* --------------------------------------------------------------------- C14
\* C14: on an empty store get_upcoming_tasks() returns the empty sequence,
\* schedule_tasks() returns the empty sequence and leaves the current
\* schedule empty, and remind_tasks() yields two empty groups, each
\* without error.
C14_EmptyStore ==
    tasks = <<>> =>
        /\ last.op = "get_upcoming_tasks" =>
             last.err = "none" /\ last.ret = <<>>
        /\ last.op = "schedule_tasks" =>
             last.err = "none" /\ last.ret = <<>> /\ schedule = <<>>
        /\ last.op = "remind_tasks" =>
             last.err = "none" /\ last.ret = <<>> /\ last.ret2 = <<>>

\* schedule_tasks was called on a store whose every task has been completed
C14_Witness ==
    /\ tasks = <<>>
    /\ completed_tasks # <<>>
    /\ last.op = "schedule_tasks"

\* --------------------------------------------------------------------- C15
\* C15: a successful mark_task_as_completed(name) removes exactly one
\* entry, the first in the store sequence whose task has that name; every
\* other entry, later ones of that name included, stays in unchanged
\* relative order, and the task appended to the archive is the one removed.
C15_FirstMatchRemoved ==
    [][CompletedStep =>
         \E i \in 1..Len(tasks) :
            /\ tasks[i][3].name = last'.name
            /\ \A j \in 1..(i - 1) : tasks[j][3].name # last'.name
            /\ tasks' = SubSeq(tasks, 1, i - 1) \o SubSeq(tasks, i + 1, Len(tasks))
            /\ completed_tasks'[Len(completed_tasks')] = tasks[i][3]]_vars

\* a completion has succeeded and left two entries in the store, one of
\* them of the completed name
C15_Witness ==
    /\ last.op = "mark_task_as_completed"
    /\ last.out = "marked as completed"
    /\ Len(tasks) = 2
    /\ Matches(tasks, last.name) # {}

\* --------------------------------------------------------------------- C16
\* C16: the store is a min-heap by (priority, deadline) in every reachable
\* state: no entry has a key smaller than the key of its parent (the entry
\* at half its position), so the first entry has a minimum key.
C16_StoreIsMinHeap ==
    /\ \A i \in 2..Len(tasks) : ~KeyLess(tasks[i], tasks[i \div 2])
    /\ \A i \in 2..Len(tasks) : ~KeyLess(tasks[i], tasks[1])

\* --------------------------------------------------------------------- C17
\* a group is in non-decreasing priority order, tasks of equal priority in
\* the order they have in the store
GroupOrdered(group) ==
    \A i, j \in 1..Len(group) :
        i < j => \/ group[i].priority < group[j].priority
                 \/ /\ group[i].priority = group[j].priority
                    /\ PosOf(TasksOf(tasks), group[i].id)
                         < PosOf(TasksOf(tasks), group[j].id)

\* C17: each group remind_tasks() produces is in non-decreasing priority
\* order, tasks of equal priority in the relative order they have in the
\* store sequence at the time of the call.
C17_RemindGroupsStable ==
    last.op = "remind_tasks" =>
        GroupOrdered(last.ret) /\ GroupOrdered(last.ret2)

\* a group of three tasks, two of them of one priority, that is not in
\* store order
C17_Witness ==
    /\ last.op = "remind_tasks"
    /\ Len(last.ret2) >= 3
    /\ last.ret2 # TasksOf(tasks)
    /\ \E i, j \in 1..Len(last.ret2) :
         i < j /\ last.ret2[i].priority = last.ret2[j].priority

\* --------------------------------------------------------------------- C18
\* the tasks the manager holds: those of the store and those of the archive
Held ==
    {tasks[i][3] : i \in 1..Len(tasks)} \cup
    {completed_tasks[i] : i \in 1..Len(completed_tasks)}

\* C18: the tasks in the store together with the tasks in the archive are
\* the tasks passed to add_task, each once: a step of add_task adds its
\* task to them, no other step changes them, and no task is in them twice
\* (the two lists have as many entries as tasks were added, and the tasks
\* they hold are all of these).
C18_TasksConserved ==
    [][/\ Len(tasks') + Len(completed_tasks') = created'
       /\ {t.id : t \in Held'} = 1..created'
       /\ IF last'.op = "add_task"
          THEN created' = created + 1 /\ Held' = Held \cup {last'.task}
          ELSE created' = created /\ Held' = Held]_vars

\* three tasks have been added, some of them are active and some archived
C18_Witness ==
    /\ created >= 3
    /\ tasks # <<>>
    /\ completed_tasks # <<>>

\* --------------------------------------------------------------------- C19
\* C19: when no active task has a negative duration, no task remind_tasks()
\* would class as overdue at that now (deadline < now) is in the schedule
\* schedule_tasks() returns, and the clock of the pass, now plus the
\* durations accepted so far, never decreases.
C19_OverdueNeverScheduled ==
    (ScheduleReturned /\ DurationsNonNegative) =>
        /\ Ids(last.ret) \cap Ids(overdue_of(tasks, last.now)) = {}
        /\ \A k \in 1..Len(last.ret) :
             last.now + SumDurations(last.ret, k - 1)
                <= last.now + SumDurations(last.ret, k)

\* a schedule that is not empty was returned for a store of non-negative
\* durations that holds an overdue task
C19_Witness ==
    /\ ScheduleReturned
    /\ DurationsNonNegative
    /\ last.ret # <<>>
    /\ overdue_of(tasks, last.now) # <<>>

=============================================================================
